---- MODULE Spec2Model ----
(***************************************************************************)
(* Model of sample_apps/aws_starter_demo/src/main.c: the globals shared by *)
(* the push-button callbacks, the WLAN event handlers and the application  *)
(* thread aws_starter_demo, and the thread's position in its code.         *)
(*                                                                         *)
(* Execution contexts.  The push-button callbacks are interrupt-level      *)
(* (main.c:48) and run to completion between any two accesses the thread   *)
(* makes to the volatile counters, so aws_publish_property_state is split  *)
(* at every such access.  The WLAN event handlers run one at a time on the *)
(* event dispatcher and interleave with the thread between its calls.      *)
(***************************************************************************)
EXTENDS Integers, Sequences, FiniteSets, TLC

VARIABLES
    device_state,             \* main.c:58
    pushbutton_a_count,       \* main.c:49
    pushbutton_a_count_prev,  \* main.c:50
    pushbutton_b_count,       \* main.c:51
    pushbutton_b_count_prev,  \* main.c:52
    led_1_state,              \* main.c:53
    led_1_state_prev,         \* main.c:54
    led_1,                    \* the LED behind main.c:56: TRUE is lit
    mqtt_client,              \* main.c:57: [connected, delta]
    aws_starter_thread,       \* main.c:61: "none", "running", "completed"
    pc,                       \* where aws_starter_demo stands
    wlan_pc,                  \* where wlan_event_normal_connected stands
    state,                    \* main.c:241, the fragments collected so far
    buf_out,                  \* main.c:240, the document handed to the update
    ret,                      \* main.c:243 / main.c:291
    deltas,                   \* notifications served by the running yield
    issued,                   \* history: aws_iot_shadow_update called this tick
    entry,                    \* history: the fields when the publish began
    unsent,                   \* history: fields holding a value never formatted
    skipped,                  \* history: unsent fields a check passed over
    outage,                   \* history: fields changed while the link was down
    linkup,                   \* history: "none", "pending", "done": the first link-up event
    scn,                      \* history: progress of the three-presses scenario
    msg,                      \* history: the message the running yield served last
    last_req,                 \* history: the context of this tick's last led request
    toggled,                  \* history: what this tick's requests did to the LED
    sent,                     \* history: the value last formatted for each field
    threads                   \* history: threads created by os_thread_create

vars == <<device_state, pushbutton_a_count, pushbutton_a_count_prev,
          pushbutton_b_count, pushbutton_b_count_prev, led_1_state,
          led_1_state_prev, led_1, mqtt_client, aws_starter_thread, pc,
          wlan_pc, state, buf_out, ret, deltas, issued, entry, unsent,
          skipped, outage, linkup, scn, msg, last_req, toggled, sent,
          threads>>

counters == <<pushbutton_a_count, pushbutton_a_count_prev,
              pushbutton_b_count, pushbutton_b_count_prev>>
leds     == <<led_1_state, led_1_state_prev, led_1>>
buffers  == <<state, buf_out, ret, issued, entry>>
thread   == <<aws_starter_thread, pc>>
history  == <<unsent, skipped, outage, linkup, scn>>
ledger   == <<msg, last_req, toggled, sent, threads>>

----------------------------------------------------------------------------
(* Bounds of the model. *)
MaxCountA == 3      \* presses of button A that are counted
MaxCountB == 1      \* presses of button B that are counted
MaxReq    == 2      \* largest value a led notification asks for
MaxDeltas == 2      \* messages one yield serves

(* Program constants. *)
AWS_CONNECTED    == 1
AWS_RECONNECTED  == 2
AWS_DISCONNECTED == 3
STATE_ZERO       == 0            \* device_state before any assignment
UNSET            == -1           \* the initial value of every *_prev
INT_MAX          == 2147483647
WM_SUCCESS       == 0
WM_FAIL          == 1

VAR_BUTTON_A_PROPERTY == "pb"
VAR_BUTTON_B_PROPERTY == "pb_lambda"
VAR_LED_1_PROPERTY    == "led"
Fields == {VAR_BUTTON_A_PROPERTY, VAR_BUTTON_B_PROPERTY, VAR_LED_1_PROPERTY}

NotConnected == {AWS_DISCONNECTED, AWS_RECONNECTED}

----------------------------------------------------------------------------
(* The text aws_publish_property_state builds, as a sequence of tokens: a  *)
(* separator "," or one "key":value pair.                                  *)
Comma      == [tok |-> ",", key |-> "", val |-> 0]
Pair(k, v) == [tok |-> "kv", key |-> k, val |-> v]

\* snprintf(buf_out, BUFSIZE, ",\"%s\":%lu", key, value)
Fragment(k, v) == <<Comma, Pair(k, v)>>

\* if (*ptr == ',') ptr++;  the text from ptr on
SkipComma(s) == IF s # <<>> /\ Head(s) = Comma THEN Tail(s) ELSE s

\* Document with the skip of main.c:269-270 left out
DocumentRaw(s) == s

\* snprintf(buf_out, BUFSIZE, "{\"state\": {\"reported\":{%s}}}", ptr)
Document(s) == SkipComma(s)

\* Changed with the comparison left out
ChangedAlways(prev, cur) == TRUE

\* Changed that sees only a value that went up
ChangedUpward(prev, cur) == prev < cur

\* the condition guarding each fragment
Changed(prev, cur) == prev # cur

(* A uint32_t is held as the integer of -2^31 .. 2^31-1 that is congruent  *)
(* to it modulo 2^32: equal words are equal integers, (uint32_t) -1 is -1, *)
(* and the successor of 2^31-1 is -2^31.                                   *)
Inc(w) == IF w = INT_MAX THEN (0 - INT_MAX) - 1 ELSE w + 1

\* Press with the guard of main.c:103 left out
PressAlways(prev, count) == Inc(count)

\* main.c:103-104, the counter after a press
Press(prev, count) == IF prev = count THEN Inc(count) ELSE count

\* LedApply keeping the requested value as led_1_state
LedApplyStore(req) == <<req # 0, req>>

\* main.c:226-233, what a request does to <<led_1, led_1_state>>
LedApply(req) == IF req # 0 THEN <<TRUE, 1>> ELSE <<FALSE, 0>>

\* the keys of the pairs of a text
Keys(s) == {s[i].key : i \in {j \in 1..Len(s) : s[j].tok = "kv"}}
HasEntry(s, k, v) == \E i \in 1..Len(s) : s[i] = Pair(k, v)

\* the value of every field when a publish begins
Snapshot == [a  |-> pushbutton_a_count, ap |-> pushbutton_a_count_prev,
             b  |-> pushbutton_b_count, bp |-> pushbutton_b_count_prev,
             l  |-> led_1_state,        lp |-> led_1_state_prev]
NoEntry  == [a |-> 0, ap |-> 0, b |-> 0, bp |-> 0, l |-> 0, lp |-> 0]

\* what a library call can return
Outcomes == {WM_SUCCESS, 0 - WM_FAIL}
Requests == 0..MaxReq
\* a p_context: NULL, or a pointer to the requested value
NULL     == <<>>
Contexts == {NULL} \cup {<<v>> : v \in Requests}

\* main.c:211-215, the status an acknowledgement carries
SHADOW_ACK_TIMEOUT  == "timeout"
SHADOW_ACK_REJECTED == "rejected"
SHADOW_ACK_ACCEPTED == "accepted"

\* what a yield hands to a callback: a led request or an acknowledgement
NoMsg    == [kind |-> "none", ctx |-> NULL, status |-> ""]
Delta(p) == [kind |-> "delta", ctx |-> p, status |-> ""]
Ack(st)  == [kind |-> "ack", ctx |-> NULL, status |-> st]

----------------------------------------------------------------------------
(* Progress of the scenario "pb reported as 0, link lost, button A pressed *)
(* three times while disconnected, link recovers, reconnect succeeds".     *)
ScnLost ==
    IF scn = "idle" /\ device_state = AWS_CONNECTED
       /\ pushbutton_a_count = 0 /\ pushbutton_a_count_prev = 0
    THEN "down0"
    ELSE IF scn \in {"idle", "void"} THEN scn ELSE "void"

ScnPress ==
    CASE scn = "down0" /\ device_state = AWS_DISCONNECTED -> "down1"
      [] scn = "down1" /\ device_state = AWS_DISCONNECTED -> "down2"
      [] scn = "down2" /\ device_state = AWS_DISCONNECTED -> "down3"
      [] scn \in {"idle", "void"} -> scn
      [] OTHER -> "void"

ScnReconnected ==
    IF scn = "down3" THEN "up3"
    ELSE IF scn \in {"idle", "void"} THEN scn ELSE "void"

----------------------------------------------------------------------------
Init ==
    /\ device_state = STATE_ZERO
    /\ pushbutton_a_count = 0
    /\ pushbutton_a_count_prev = UNSET
    /\ pushbutton_b_count = 0
    /\ pushbutton_b_count_prev = UNSET
    /\ led_1_state = 0
    /\ led_1_state_prev = UNSET
    /\ led_1 = FALSE
    /\ mqtt_client = [connected |-> FALSE, delta |-> FALSE]
    /\ aws_starter_thread = "none"
    /\ pc = "idle"
    /\ wlan_pc = "idle"
    /\ state = <<>>
    /\ buf_out = <<>>
    /\ ret = WM_SUCCESS
    /\ deltas = 0
    /\ issued = FALSE
    /\ entry = NoEntry
    /\ unsent = {VAR_BUTTON_A_PROPERTY, VAR_BUTTON_B_PROPERTY}
    /\ skipped = {}
    /\ outage = {}
    /\ linkup = "none"
    /\ scn = "idle"
    /\ msg = NoMsg
    /\ last_req = NULL
    /\ toggled = "none"
    /\ sent = [f \in Fields |-> UNSET]
    /\ threads = 0

----------------------------------------------------------------------------
(* The push-button callbacks. *)
pushbutton_a_cb ==
    /\ pushbutton_a_count < MaxCountA
    /\ pushbutton_a_count' = Press(pushbutton_a_count_prev, pushbutton_a_count)
    /\ unsent' = IF pushbutton_a_count' # pushbutton_a_count
                 THEN unsent \cup {VAR_BUTTON_A_PROPERTY} ELSE unsent
    /\ outage' = IF pushbutton_a_count' # pushbutton_a_count
                    /\ device_state \in NotConnected
                 THEN outage \cup {VAR_BUTTON_A_PROPERTY} ELSE outage
    /\ scn' = ScnPress
    /\ UNCHANGED <<device_state, pushbutton_a_count_prev, pushbutton_b_count,
                   pushbutton_b_count_prev, leds, mqtt_client, thread, wlan_pc,
                   buffers, deltas, skipped, linkup,
                   ledger>>

pushbutton_b_cb ==
    /\ pushbutton_b_count < MaxCountB
    /\ pushbutton_b_count' = Press(pushbutton_b_count_prev, pushbutton_b_count)
    /\ unsent' = IF pushbutton_b_count' # pushbutton_b_count
                 THEN unsent \cup {VAR_BUTTON_B_PROPERTY} ELSE unsent
    /\ outage' = IF pushbutton_b_count' # pushbutton_b_count
                    /\ device_state \in NotConnected
                 THEN outage \cup {VAR_BUTTON_B_PROPERTY} ELSE outage
    /\ UNCHANGED <<device_state, pushbutton_a_count, pushbutton_a_count_prev,
                   pushbutton_b_count_prev, leds, mqtt_client, thread, wlan_pc,
                   buffers, deltas, skipped, linkup, scn,
                   ledger>>

----------------------------------------------------------------------------
(* The WLAN event handlers. *)
wlan_event_normal_link_lost ==
    /\ wlan_pc = "idle"
    /\ mqtt_client' = [mqtt_client EXCEPT !.connected = FALSE]
    /\ device_state' = AWS_DISCONNECTED
    /\ scn' = ScnLost
    /\ UNCHANGED <<counters, leds, thread, wlan_pc, buffers, deltas,
                   unsent, skipped, outage, linkup,
                   ledger>>

wlan_event_normal_connect_failed ==
    /\ wlan_pc = "idle"
    /\ mqtt_client' = [mqtt_client EXCEPT !.connected = FALSE]
    /\ device_state' = AWS_DISCONNECTED
    /\ scn' = ScnLost
    /\ UNCHANGED <<counters, leds, thread, wlan_pc, buffers, deltas,
                   unsent, skipped, outage, linkup,
                   ledger>>

\* MayCreate with the test of main.c:397 passing after a link loss as well
MayCreateAfterLoss(ds) == ds \in {STATE_ZERO, AWS_DISCONNECTED}

\* main.c:397, if (!device_state)
MayCreate(ds) == ds = STATE_ZERO

\* main.c:389-419: the thread is created while device_state is still zero
wlan_event_normal_connected_create ==
    /\ wlan_pc = "idle"
    /\ \E created \in BOOLEAN :
         IF MayCreate(device_state)
         THEN IF created
              THEN /\ aws_starter_thread' = "running"
                   /\ pc' = "load_cfg"
                   /\ wlan_pc' = "set"
                   /\ threads' = threads + 1
                   /\ linkup' = IF linkup = "none" THEN "pending" ELSE linkup
              ELSE /\ linkup' = "done"
                   /\ UNCHANGED <<thread, wlan_pc, threads>>
         ELSE /\ created
              /\ wlan_pc' = "set"
              /\ linkup' = IF linkup = "none" THEN "pending" ELSE linkup
              /\ UNCHANGED <<thread, threads>>
    /\ UNCHANGED <<device_state, counters, leds, mqtt_client, buffers, deltas,
                   unsent, skipped, outage, scn,
                   msg, last_req, toggled, sent>>

\* LinkUpState with the test of main.c:423 left out
LinkUpStateNoTest(ds) ==
    IF ds = STATE_ZERO THEN AWS_CONNECTED ELSE AWS_RECONNECTED

\* main.c:421-424, device_state after the handler
LinkUpState(ds) ==
    IF ds = STATE_ZERO THEN AWS_CONNECTED
    ELSE IF ds = AWS_DISCONNECTED THEN AWS_RECONNECTED
    ELSE ds

\* main.c:421-424
wlan_event_normal_connected_set ==
    /\ wlan_pc = "set"
    /\ device_state' = LinkUpState(device_state)
    /\ wlan_pc' = "idle"
    /\ linkup' = IF linkup = "pending" THEN "done" ELSE linkup
    /\ UNCHANGED <<counters, leds, mqtt_client, thread, buffers, deltas,
                   unsent, skipped, outage, scn,
                   ledger>>

----------------------------------------------------------------------------
(* The application thread aws_starter_demo, up to its loop. *)

\* Fatal with no result taken for a failure
FatalNever(r) == FALSE

\* main.c:298, 304, 310, 322, 338, 343: if (ret != WM_SUCCESS) ... goto out
Fatal(r) == r # WM_SUCCESS

\* main.c:146-204, from the results of the five reads of persistent memory:
\* a region that cannot be read is replaced by the default one
aws_starter_load_configuration(thing, mac, region, cert, key) ==
    IF thing # WM_SUCCESS THEN 0 - WM_FAIL
    ELSE IF mac # WM_SUCCESS THEN 0 - WM_FAIL
    ELSE IF cert # WM_SUCCESS THEN 0 - WM_FAIL
    ELSE IF key # WM_SUCCESS THEN 0 - WM_FAIL
    ELSE key

\* main.c:295-301
demo_load_configuration ==
    /\ pc = "load_cfg"
    /\ mqtt_client' = [connected |-> FALSE, delta |-> FALSE]
    /\ \E thing, mac, region, cert, key \in Outcomes :
         /\ ret' = aws_starter_load_configuration(thing, mac, region, cert,
                                                  key)
         /\ pc' = IF Fatal(ret') THEN "out" ELSE "shadow_init"
    /\ UNCHANGED <<device_state, counters, leds, aws_starter_thread, wlan_pc,
                   state, buf_out, issued, entry, deltas, history,
                   ledger>>

\* main.c:303-307
demo_shadow_init ==
    /\ pc = "shadow_init"
    /\ \E r \in Outcomes :
         /\ ret' = r
         /\ pc' = IF Fatal(r) THEN "out" ELSE "shadow_connect"
    /\ UNCHANGED <<device_state, counters, leds, mqtt_client,
                   aws_starter_thread, wlan_pc, state, buf_out, issued, entry,
                   deltas, history,
                   ledger>>

\* main.c:309-317
demo_shadow_connect ==
    /\ pc = "shadow_connect"
    /\ \E r \in Outcomes :
         /\ ret' = r
         /\ IF Fatal(r)
            THEN pc' = "out" /\ UNCHANGED mqtt_client
            ELSE /\ pc' = "register_delta"
                 /\ mqtt_client' = [mqtt_client EXCEPT !.connected = TRUE]
    /\ UNCHANGED <<device_state, counters, leds, aws_starter_thread, wlan_pc,
                   state, buf_out, issued, entry, deltas, history,
                   ledger>>

\* main.c:320-330
demo_register_delta ==
    /\ pc = "register_delta"
    /\ \E r \in Outcomes :
         /\ ret' = r
         /\ IF Fatal(r)
            THEN pc' = "out" /\ UNCHANGED mqtt_client
            ELSE /\ pc' = "loop_top"
                 /\ mqtt_client' = [mqtt_client EXCEPT !.delta = TRUE]
    /\ UNCHANGED <<device_state, counters, leds, aws_starter_thread, wlan_pc,
                   state, buf_out, issued, entry, deltas, history,
                   ledger>>

----------------------------------------------------------------------------
(* One tick of the loop: the reconnect branch. *)

\* main.c:335
demo_loop_top ==
    /\ pc = "loop_top"
    /\ pc' = IF device_state = AWS_RECONNECTED THEN "re_init" ELSE "yield"
    /\ UNCHANGED <<device_state, counters, leds, mqtt_client,
                   aws_starter_thread, wlan_pc, buffers, deltas, history,
                   ledger>>

\* main.c:336-341
demo_re_init ==
    /\ pc = "re_init"
    /\ \E r \in Outcomes :
         /\ ret' = r
         /\ IF Fatal(r)
            THEN pc' = "out" /\ UNCHANGED mqtt_client
            ELSE /\ pc' = "re_connect"
                 /\ mqtt_client' = [connected |-> FALSE, delta |-> FALSE]
    /\ UNCHANGED <<device_state, counters, leds, aws_starter_thread, wlan_pc,
                   state, buf_out, issued, entry, deltas, history,
                   ledger>>

\* main.c:342-346
demo_re_connect ==
    /\ pc = "re_connect"
    /\ \E r \in Outcomes :
         /\ ret' = r
         /\ IF Fatal(r)
            THEN pc' = "out" /\ UNCHANGED mqtt_client
            ELSE /\ pc' = "re_set"
                 /\ mqtt_client' = [mqtt_client EXCEPT !.connected = TRUE]
    /\ UNCHANGED <<device_state, counters, leds, aws_starter_thread, wlan_pc,
                   state, buf_out, issued, entry, deltas, history,
                   ledger>>

\* main.c:347-349
demo_re_set ==
    /\ pc = "re_set"
    /\ device_state' = AWS_CONNECTED
    /\ pc' = "re_register"
    /\ scn' = ScnReconnected
    /\ UNCHANGED <<counters, leds, mqtt_client, aws_starter_thread, wlan_pc,
                   buffers, deltas, unsent, skipped, outage, linkup,
                   ledger>>

\* main.c:350-352: the result is stored and not looked at
demo_re_register ==
    /\ pc = "re_register"
    /\ \E r \in Outcomes :
         /\ ret' = r
         /\ mqtt_client' = [mqtt_client EXCEPT !.delta = (r = WM_SUCCESS)]
    /\ pc' = "yield"
    /\ UNCHANGED <<device_state, counters, leds, aws_starter_thread, wlan_pc,
                   state, buf_out, issued, entry, deltas, history,
                   ledger>>

----------------------------------------------------------------------------
(* aws_iot_shadow_yield, which calls led_indicator_cb for a notification. *)

\* led_indicator_cb switching the LED over at every request
led_indicator_cb_toggle(p_context) ==
    IF p_context # NULL
    THEN /\ led_1' = ~led_1
         /\ led_1_state' = 1 - led_1_state
         /\ outage' = IF device_state \in NotConnected
                      THEN outage \cup {VAR_LED_1_PROPERTY} ELSE outage
    ELSE UNCHANGED <<led_1, led_1_state, outage>>

\* main.c:221-235, with p_context NULL or pointing at the requested value
led_indicator_cb(p_context) ==
    IF p_context # NULL
    THEN /\ led_1' = LedApply(p_context[1])[1]
         /\ led_1_state' = LedApply(p_context[1])[2]
         /\ outage' = IF LedApply(p_context[1])[2] # led_1_state
                         /\ device_state \in NotConnected
                      THEN outage \cup {VAR_LED_1_PROPERTY} ELSE outage
    ELSE UNCHANGED <<led_1, led_1_state, outage>>

\* main.c:355, a notification arrives within the time budget
demo_yield_notify ==
    /\ pc = "yield"
    /\ deltas < MaxDeltas
    /\ mqtt_client.connected /\ mqtt_client.delta
    /\ \E p_context \in Contexts :
         /\ led_indicator_cb(p_context)
         /\ msg' = Delta(p_context)
         /\ last_req' = IF p_context # NULL THEN p_context ELSE last_req
         /\ toggled' = CASE led_1' # led_1 -> IF led_1' THEN "on" ELSE "off"
                         [] led_1' = led_1 /\ p_context # NULL
                            /\ toggled = "none" -> "same"
                         [] led_1' = led_1 /\ p_context # NULL
                            /\ toggled = "same"
                            /\ p_context = last_req -> "repeat"
                         [] OTHER -> toggled
    /\ deltas' = deltas + 1
    /\ UNCHANGED <<device_state, counters, led_1_state_prev, mqtt_client,
                   thread, wlan_pc, buffers, unsent, skipped, linkup, scn,
                   sent, threads>>

\* main.c:206-218: the callback prints the status and writes nothing
shadow_update_status_cb(status) ==
    UNCHANGED <<device_state, counters, leds, mqtt_client, thread, buffers>>

\* the statuses a yield can report: a verdict needs the channel
AckStatuses == IF mqtt_client.connected
               THEN {SHADOW_ACK_TIMEOUT, SHADOW_ACK_REJECTED,
                     SHADOW_ACK_ACCEPTED}
               ELSE {SHADOW_ACK_TIMEOUT}

\* main.c:355, the yield reports on an update issued by an earlier tick
demo_yield_ack ==
    /\ pc = "yield"
    /\ deltas < MaxDeltas
    /\ led_1_state_prev # UNSET
    /\ \E status \in AckStatuses :
         /\ shadow_update_status_cb(status)
         /\ msg' = Ack(status)
    /\ deltas' = deltas + 1
    /\ UNCHANGED <<wlan_pc, history, last_req, toggled, sent, threads>>

\* main.c:355-356 and 240-245: the yield returns, the publish begins
demo_yield_return ==
    /\ pc = "yield"
    /\ deltas' = 0
    /\ msg' = NoMsg
    /\ state' = <<>>
    /\ ret' = WM_SUCCESS
    /\ entry' = Snapshot
    /\ pc' = "pub_a_cmp"
    /\ UNCHANGED <<device_state, counters, leds, mqtt_client,
                   aws_starter_thread, wlan_pc, buf_out, issued, history,
                   last_req, toggled, sent, threads>>

----------------------------------------------------------------------------
(* aws_publish_property_state, one step for each access to a counter. *)

\* main.c:246
publish_a_check ==
    /\ pc = "pub_a_cmp"
    /\ pc' = IF Changed(pushbutton_a_count_prev, pushbutton_a_count)
             THEN "pub_a_fmt" ELSE "pub_b_cmp"
    /\ skipped' = IF VAR_BUTTON_A_PROPERTY \in unsent /\ pc' # "pub_a_fmt"
                  THEN skipped \cup {VAR_BUTTON_A_PROPERTY} ELSE skipped
    /\ UNCHANGED <<device_state, counters, leds, mqtt_client,
                   aws_starter_thread, wlan_pc, buffers, deltas, unsent,
                   outage, linkup, scn,
                   ledger>>

\* main.c:247-249
publish_a_format ==
    /\ pc = "pub_a_fmt"
    /\ state' = state \o Fragment(VAR_BUTTON_A_PROPERTY, pushbutton_a_count)
    /\ sent' = [sent EXCEPT ![VAR_BUTTON_A_PROPERTY] = pushbutton_a_count]
    /\ unsent' = unsent \ {VAR_BUTTON_A_PROPERTY}
    /\ pc' = "pub_a_mark"
    /\ UNCHANGED <<device_state, counters, leds, mqtt_client,
                   aws_starter_thread, wlan_pc, buf_out, ret, issued, entry,
                   deltas, skipped, outage, linkup, scn,
                   msg, last_req, toggled, threads>>

\* main.c:250
publish_a_mark ==
    /\ pc = "pub_a_mark"
    /\ pushbutton_a_count_prev' = pushbutton_a_count
    /\ pc' = "pub_b_cmp"
    /\ UNCHANGED <<device_state, pushbutton_a_count, pushbutton_b_count,
                   pushbutton_b_count_prev, leds, mqtt_client,
                   aws_starter_thread, wlan_pc, buffers, deltas, history,
                   ledger>>

\* main.c:252
publish_b_check ==
    /\ pc = "pub_b_cmp"
    /\ pc' = IF Changed(pushbutton_b_count_prev, pushbutton_b_count)
             THEN "pub_b_fmt" ELSE "pub_led_cmp"
    /\ skipped' = IF VAR_BUTTON_B_PROPERTY \in unsent /\ pc' # "pub_b_fmt"
                  THEN skipped \cup {VAR_BUTTON_B_PROPERTY} ELSE skipped
    /\ UNCHANGED <<device_state, counters, leds, mqtt_client,
                   aws_starter_thread, wlan_pc, buffers, deltas, unsent,
                   outage, linkup, scn,
                   ledger>>

\* main.c:253-255
publish_b_format ==
    /\ pc = "pub_b_fmt"
    /\ state' = state \o Fragment(VAR_BUTTON_B_PROPERTY, pushbutton_b_count)
    /\ sent' = [sent EXCEPT ![VAR_BUTTON_B_PROPERTY] = pushbutton_b_count]
    /\ unsent' = unsent \ {VAR_BUTTON_B_PROPERTY}
    /\ pc' = "pub_b_mark"
    /\ UNCHANGED <<device_state, counters, leds, mqtt_client,
                   aws_starter_thread, wlan_pc, buf_out, ret, issued, entry,
                   deltas, skipped, outage, linkup, scn,
                   msg, last_req, toggled, threads>>

\* main.c:256
publish_b_mark ==
    /\ pc = "pub_b_mark"
    /\ pushbutton_b_count_prev' = pushbutton_b_count
    /\ pc' = "pub_led_cmp"
    /\ UNCHANGED <<device_state, pushbutton_a_count, pushbutton_a_count_prev,
                   pushbutton_b_count, leds, mqtt_client, aws_starter_thread,
                   wlan_pc, buffers, deltas, history,
                   ledger>>

\* main.c:262-267: led_1_state is written by this thread alone
publish_led ==
    /\ pc = "pub_led_cmp"
    /\ IF Changed(led_1_state_prev, led_1_state)
       THEN /\ state' = state \o Fragment(VAR_LED_1_PROPERTY, led_1_state)
            /\ led_1_state_prev' = led_1_state
            /\ sent' = [sent EXCEPT ![VAR_LED_1_PROPERTY] = led_1_state]
       ELSE UNCHANGED <<state, led_1_state_prev, sent>>
    /\ pc' = "pub_send"
    /\ UNCHANGED <<device_state, counters, led_1_state, led_1, mqtt_client,
                   aws_starter_thread, wlan_pc, buf_out, ret, issued, entry,
                   deltas, history,
                   msg, last_req, toggled, threads>>

\* what aws_iot_shadow_update can return: an error on a closed channel
UpdateOutcomes == IF mqtt_client.connected THEN Outcomes ELSE {0 - WM_FAIL}

\* NonEmpty with the test of main.c:271 left out
NonEmptyAlways(s) == TRUE

\* main.c:271, if (strlen(state))
NonEmpty(s) == Len(s) # 0

\* main.c:269-285
publish_send ==
    /\ pc = "pub_send"
    /\ IF NonEmpty(state)
       THEN /\ buf_out' = Document(state)
            /\ issued' = TRUE
            /\ \E r \in UpdateOutcomes : ret' = r
            /\ outage' = IF device_state = AWS_CONNECTED
                         THEN outage \ Keys(buf_out') ELSE outage
       ELSE UNCHANGED <<buf_out, issued, ret, outage>>
    /\ pc' = "tick_end"
    /\ UNCHANGED <<device_state, counters, leds, mqtt_client,
                   aws_starter_thread, wlan_pc, state, entry, deltas, unsent,
                   skipped, linkup, scn,
                   ledger>>

\* AfterPublish leaving the loop when the publish failed
AfterPublishFatal(r) == IF Fatal(r) THEN "out" ELSE "loop_top"

\* main.c:357-359: a failure is printed, the thread sleeps and goes on
AfterPublish(r) == "loop_top"

\* main.c:356-359: the result is logged, the thread sleeps, the loop repeats
demo_tick_end ==
    /\ pc = "tick_end"
    /\ pc' = AfterPublish(ret)
    /\ state' = <<>>
    /\ buf_out' = <<>>
    /\ issued' = FALSE
    /\ entry' = NoEntry
    /\ scn' = IF scn = "up3" THEN "void" ELSE scn
    /\ toggled' = "none"
    /\ last_req' = NULL
    /\ UNCHANGED <<device_state, counters, leds, mqtt_client,
                   aws_starter_thread, wlan_pc, ret, deltas, unsent, skipped,
                   outage, linkup, msg, sent, threads>>

\* main.c:367-369
demo_out ==
    /\ pc = "out"
    /\ aws_starter_thread' = "completed"
    /\ pc' = "exit"
    /\ UNCHANGED <<device_state, counters, leds, mqtt_client, wlan_pc,
                   buffers, deltas, history,
                   ledger>>

----------------------------------------------------------------------------
Next ==
    \/ pushbutton_a_cb
    \/ pushbutton_b_cb
    \/ wlan_event_normal_link_lost
    \/ wlan_event_normal_connect_failed
    \/ wlan_event_normal_connected_create
    \/ wlan_event_normal_connected_set
    \/ demo_load_configuration
    \/ demo_shadow_init
    \/ demo_shadow_connect
    \/ demo_register_delta
    \/ demo_loop_top
    \/ demo_re_init
    \/ demo_re_connect
    \/ demo_re_set
    \/ demo_re_register
    \/ demo_yield_notify
    \/ demo_yield_ack
    \/ demo_yield_return
    \/ publish_a_check
    \/ publish_a_format
    \/ publish_a_mark
    \/ publish_b_check
    \/ publish_b_format
    \/ publish_b_mark
    \/ publish_led
    \/ publish_send
    \/ demo_tick_end
    \/ demo_out

Spec == Init /\ [][Next]_vars

----------------------------------------------------------------------------
(* Vocabulary of the properties. *)
Cur(f)  == CASE f = VAR_BUTTON_A_PROPERTY -> pushbutton_a_count
             [] f = VAR_BUTTON_B_PROPERTY -> pushbutton_b_count
             [] OTHER -> led_1_state
Prev(f) == CASE f = VAR_BUTTON_A_PROPERTY -> pushbutton_a_count_prev
             [] f = VAR_BUTTON_B_PROPERTY -> pushbutton_b_count_prev
             [] OTHER -> led_1_state_prev
EntryPrev(f) == CASE f = VAR_BUTTON_A_PROPERTY -> entry.ap
                  [] f = VAR_BUTTON_B_PROPERTY -> entry.bp
                  [] OTHER -> entry.lp
prevs == <<pushbutton_a_count_prev, pushbutton_b_count_prev, led_1_state_prev>>

\* the publish has run to its end and no callback changed a counter meanwhile
QuietPublish ==
    /\ pc = "tick_end"
    /\ pushbutton_a_count = entry.a
    /\ pushbutton_b_count = entry.b

\* the fields that differed from their *_prev when the publish began, in the
\* order pb, pb_lambda, led
PendingAt(e) ==
    SelectSeq(<<[key |-> VAR_BUTTON_A_PROPERTY, cur |-> e.a, prev |-> e.ap],
                [key |-> VAR_BUTTON_B_PROPERTY, cur |-> e.b, prev |-> e.bp],
                [key |-> VAR_LED_1_PROPERTY,    cur |-> e.l, prev |-> e.lp]>>,
              LAMBDA x : x.cur # x.prev)

\* the pairs of a list of fields, one separator between neighbours
Joined(p) ==
    [i \in 1..(IF Len(p) = 0 THEN 0 ELSE 2 * Len(p) - 1) |->
        IF i % 2 = 1 THEN Pair(p[(i + 1) \div 2].key, p[(i + 1) \div 2].cur)
        ELSE Comma]

----------------------------------------------------------------------------
(* C1: starting from pb reported as 0, three presses of button A while     *)
(* AWS_DISCONNECTED that brought the counter to 3, followed by a           *)
(* successful reconnect, make the publish of that tick contain pb = 3.     *)
C1_ThreePressesPublished ==
    (pc = "tick_end" /\ scn = "up3" /\ pushbutton_a_count = 3)
        => (issued /\ HasEntry(buf_out, VAR_BUTTON_A_PROPERTY, 3))

(* C2: a field changed while device_state was AWS_DISCONNECTED or          *)
(* AWS_RECONNECTED stays due for a publish (it differs from its *_prev, or *)
(* sits in the text being built) until an update issued while              *)
(* AWS_CONNECTED has carried it.                                           *)
C2_OutageChangeKept ==
    \A f \in outage :
        \/ Changed(Prev(f), Cur(f))
        \/ (pc \in {"pub_b_cmp", "pub_b_fmt", "pub_b_mark", "pub_led_cmp",
                    "pub_send"} /\ f \in Keys(state))

(* C3: while device_state is AWS_DISCONNECTED or AWS_RECONNECTED no step   *)
(* issues a shadow update and no step changes a *_prev.                    *)
C3_NoSyncWhileDown ==
    [][(device_state \in NotConnected)
          => ((issued' => issued) /\ prevs' = prevs)]_vars

(* C4: when the update of a tick returns an error, the *_prev of every     *)
(* field of its payload is what it was when the publish began.             *)
C4_FailedPublishKeepsPrev ==
    (pc = "tick_end" /\ issued /\ ret # WM_SUCCESS)
        => \A f \in Keys(buf_out) : Prev(f) = EntryPrev(f)

C6_LinkLossSafety ==
    [][/\ (wlan_event_normal_link_lost \/ wlan_event_normal_connect_failed)
            => device_state' = AWS_DISCONNECTED
       /\ (device_state' = AWS_RECONNECTED /\ device_state # AWS_RECONNECTED)
            => (/\ device_state = AWS_DISCONNECTED
                /\ wlan_pc = "set" /\ wlan_pc' = "idle")]_vars

\* the link came back after a loss
C6_Witness == device_state = AWS_RECONNECTED /\ aws_starter_thread = "running"

(* C7: the first link-established event of a run, when it does not fail to *)
(* create the thread, leaves device_state AWS_CONNECTED and the sync task  *)
(* started.                                                                *)
C7_FirstLinkUpStartsSync ==
    [][(linkup = "pending" /\ linkup' = "done")
          => (device_state' = AWS_CONNECTED /\ aws_starter_thread' # "none")]_vars

(* C8: a step of the reconnect branch (init, connect, subscribe) that      *)
(* returns an error ends the loop and does not leave device_state          *)
(* AWS_CONNECTED.                                                          *)
C8_FailedReconnectIsFatal ==
    [][(pc \in {"re_init", "re_connect", "re_register"} /\ pc' # pc
          /\ ret' # WM_SUCCESS)
          => (pc' = "out" /\ device_state' # AWS_CONNECTED)]_vars

(* C9: a publish that began with every field equal to its *_prev, and      *)
(* during which no counter changed, built no text, issued no update and    *)
(* returned WM_SUCCESS.                                                    *)
C9_NothingToReport ==
    (QuietPublish /\ PendingAt(entry) = <<>>)
        => (state = <<>> /\ buf_out = <<>> /\ ~issued /\ ret = WM_SUCCESS)

\* such a publish, after button A was reported at 1
C9_Witness ==
    QuietPublish /\ PendingAt(entry) = <<>> /\ entry.a = 1 /\ ~issued

(* C10: the document of a publish during which no counter changed holds    *)
(* exactly the fields that differed from their *_prev when it began, each  *)
(* with its value, in the order pb, pb_lambda, led, and an update is       *)
(* issued exactly when there is such a field.                              *)
C10_PayloadIsTheChangedFields ==
    QuietPublish
        => (/\ buf_out = Joined(PendingAt(entry))
            /\ issued <=> (PendingAt(entry) # <<>>))

\* the payload {pb: 3, led: 1}
C10_Witness ==
    /\ pc = "tick_end"
    /\ buf_out = <<Pair(VAR_BUTTON_A_PROPERTY, 3), Comma,
                   Pair(VAR_LED_1_PROPERTY, 1)>>


----------------------------------------------------------------------------
(* The steps of a yield, as the properties see them. *)
\* the running yield hands a led notification to led_indicator_cb
NotifyStep == deltas' = deltas + 1 /\ msg'.kind = "delta"
\* ... and the notification carries a request
RequestStep == NotifyStep /\ msg'.ctx # NULL
\* the request led_indicator_cb is given in a RequestStep
Requested == msg'.ctx[1]

\* C11: led_indicator_cb is idempotent.  Serving once more the request that
\* the tick served last leaves the LED and led_1_state exactly as the first
\* serving left them; and when the state of the LED was already reported, a
\* tick that served a request for that state and then served it again puts
\* no led entry in its payload.
C11_RepeatedRequestIsNoOp ==
    /\ [][(RequestStep /\ msg'.ctx = last_req)
            => (led_1' = led_1 /\ led_1_state' = led_1_state)]_vars
    /\ [](pc = "tick_end" /\ toggled = "repeat" /\ entry.lp = entry.l
            => VAR_LED_1_PROPERTY \notin Keys(buf_out))

\* request 1 is served twice by a tick that found led = 1 already reported
C11_Witness ==
    /\ pc = "tick_end" /\ toggled = "repeat" /\ last_req = <<1>>
    /\ entry.lp = 1 /\ entry.l = 1 /\ led_1


\* the value led_1_state holds after a request switched the LED
Switched == IF toggled = "on" THEN 1 ELSE 0

InsideYield == pc = "yield" /\ deltas > 0

\* C13: the channel and device_state are touched by the loop alone: while
\* the thread is inside a channel call no step closes the channel and no
\* step writes device_state.
C13_ChannelOwnedByLoop ==
    [][InsideYield => (device_state' = device_state
                       /\ mqtt_client'.connected = mqtt_client.connected)]_vars


\* the positions of aws_starter_demo inside while (1), main.c:332-360
LoopPcs == {"loop_top", "re_init", "re_connect", "re_set", "re_register",
            "yield", "pub_a_cmp", "pub_a_fmt", "pub_a_mark", "pub_b_cmp",
            "pub_b_fmt", "pub_b_mark", "pub_led_cmp", "pub_send", "tick_end"}

\* C14: non-fatal conditions never stop the loop.  Whatever the publish
\* returned, the thread can go on from the end of the tick and goes to the
\* top of the loop; an acknowledgement of any status leaves the thread in
\* its yield, which can return; and the thread leaves the loop only from a
\* failed aws_iot_shadow_init or aws_iot_shadow_connect of a reconnect.
C14_OnlyReconnectFailureStopsLoop ==
    /\ [](pc = "tick_end" => ENABLED demo_tick_end)
    /\ [](pc = "yield" => ENABLED demo_yield_return)
    /\ [][pc = "tick_end" /\ pc' # pc => pc' = "loop_top"]_vars
    /\ [][deltas' = deltas + 1 /\ msg'.kind = "ack" => pc' = "yield"]_vars
    /\ [][(pc \in LoopPcs /\ pc' \notin LoopPcs)
            => (pc \in {"re_init", "re_connect"} /\ pc' = "out"
                /\ ret' # WM_SUCCESS)]_vars

\* the tick after a failed publish serves a rejected acknowledgement
C14_Witness ==
    /\ pc = "yield" /\ ret # WM_SUCCESS /\ mqtt_client.delta
    /\ msg = Ack(SHADOW_ACK_REJECTED)


\* the positions of aws_starter_demo before while (1), main.c:295-330
StartupPcs == {"load_cfg", "shadow_init", "shadow_connect", "register_delta"}
\* the positions after the label out, main.c:367-369
EndPcs == {"out", "exit"}
\* no field was ever formatted, no update issued, no led request applied
NothingSynced ==
    /\ ~issued /\ sent = [f \in Fields |-> UNSET]
    /\ prevs = <<UNSET, UNSET, UNSET>>
    /\ last_req = NULL /\ ~led_1 /\ led_1_state = 0

\* C15: synchronization never starts after a fatal startup error.  Until
\* the loop is entered nothing is published and no request is applied; a
\* startup call that fails sends the thread to out, whatever failed; and
\* from out the thread only ends: it never reaches the loop, and nothing
\* is published or applied any more.
C15_StartupFailureIsFinal ==
    /\ [](pc \in StartupPcs => NothingSynced)
    /\ [][(pc \in StartupPcs /\ pc' # pc /\ ret' # WM_SUCCESS)
            => pc' = "out"]_vars
    /\ [][(pc \in EndPcs)
            => (pc' \in EndPcs
                /\ UNCHANGED <<issued, sent, prevs, last_req, led_1,
                               led_1_state>>)]_vars
    /\ [](pc = "out" => ENABLED demo_out)
    /\ [](pc = "exit" => aws_starter_thread = "completed")

\* the thread has ended on a startup failure: the link was never lost
C15_Witness ==
    /\ pc = "exit" /\ aws_starter_thread = "completed"
    /\ device_state = AWS_CONNECTED /\ ret # WM_SUCCESS /\ NothingSynced


\* a fragment is appended to state: the pair it carries
FormatStep == Len(state') > Len(state)
Formatted  == state'[Len(state')]

\* C16: identical data is never re-sent.  Every value formatted for a field
\* differs from the value last formatted for that field, whatever became of
\* the update that carried the earlier one.
C16_NeverFormatsSameValueAgain ==
    [][FormatStep => (Formatted.val # sent[Formatted.key]
                      /\ sent'[Formatted.key] = Formatted.val)]_vars

\* the tick after an update that failed, whose acknowledgement timed out
\* as well: every field still holds the value formatted for it last
C16_Witness ==
    /\ pc = "yield" /\ ret # WM_SUCCESS /\ mqtt_client.delta
    /\ msg = Ack(SHADOW_ACK_TIMEOUT)
    /\ sent = [f \in Fields |-> Cur(f)] /\ pushbutton_a_count = 1


\* C17 as stated: a request for v turns the LED on iff v is non-zero and
\* records v itself in led_1_state.
C17_RecordsRequestedValue ==
    [][RequestStep => (led_1' = (Requested # 0)
                       /\ led_1_state' = Requested)]_vars

\* 0 for a request of 0 and 1 for any other
Normalised(v) == IF v # 0 THEN 1 ELSE 0

\* C17, amended: a request for v turns the LED on iff v is non-zero and
\* records 1 for a non-zero v and 0 for 0; led_1_state stays what the last
\* request made it, and a led entry of a payload carries that value, which
\* is the requested one only for v in {0, 1}.
C17_RecordsOnOrOff ==
    /\ [][RequestStep => (led_1' = (Requested # 0)
                          /\ led_1_state' = Normalised(Requested))]_vars
    /\ [](last_req # NULL => led_1_state = Normalised(last_req[1]))
    /\ [](pc = "tick_end" /\ last_req # NULL
            /\ VAR_LED_1_PROPERTY \in Keys(buf_out)
            => HasEntry(buf_out, VAR_LED_1_PROPERTY, Normalised(last_req[1])))

\* a request for 2 was served: the LED is lit and the payload says led = 1
C17_Witness ==
    /\ pc = "tick_end" /\ last_req = <<2>> /\ toggled = "on" /\ led_1
    /\ led_1_state = 1 /\ HasEntry(buf_out, VAR_LED_1_PROPERTY, 1)


\* C18: a link loss is never masked.  device_state becomes AWS_CONNECTED
\* only from its initial value, or from AWS_RECONNECTED (a link-established
\* event was processed after the loss) with the channel open (the loop has
\* re-established it).
C18_LossNeverMasked ==
    [][(device_state' = AWS_CONNECTED /\ device_state # AWS_CONNECTED)
        => \/ device_state = STATE_ZERO
           \/ device_state = AWS_RECONNECTED /\ mqtt_client'.connected]_vars


Buttons == {VAR_BUTTON_A_PROPERTY, VAR_BUTTON_B_PROPERTY}

\* C19: under every interleaving of the button callbacks with
\* aws_publish_property_state, a *_prev is set only to the value the text
\* of that tick carries for its field, and the document of the tick carries
\* that value; and once a button was reported, its counter is its *_prev or
\* the successor of its *_prev.
C19_MarkedIsFormatted ==
    /\ [][\A f \in Fields :
            Prev(f)' # Prev(f) => HasEntry(state', f, Prev(f)')]_vars
    /\ [](pc = "tick_end"
            => \A f \in Fields :
                 Prev(f) # EntryPrev(f) => HasEntry(buf_out, f, Prev(f)))
    /\ [](\A f \in Buttons :
            Prev(f) # UNSET => Cur(f) \in {Prev(f), Inc(Prev(f))})

\* button A was formatted and marked at 1 and pressed again before the
\* tick ended
C19_Witness ==
    /\ pc = "tick_end" /\ entry.ap = 0 /\ pushbutton_a_count_prev = 1
    /\ pushbutton_a_count = 2
    /\ HasEntry(buf_out, VAR_BUTTON_A_PROPERTY, 1)


\* C20: at most one sync thread is ever created.  os_thread_create succeeds
\* only in a step that found device_state zero and no thread created
\* before; the count of created threads never exceeds one, also after the
\* thread has ended.
C20_OneThreadEver ==
    /\ [](threads <= 1)
    /\ [](threads = IF aws_starter_thread = "none" THEN 0 ELSE 1)
    /\ [][threads' # threads
            => (device_state = STATE_ZERO /\ threads = 0
                /\ aws_starter_thread = "none")]_vars
    /\ [][(aws_starter_thread # "none") => aws_starter_thread' # "none"]_vars

\* a link-established event is processed after a loss and after the thread
\* has ended: no second thread
C20_Witness ==
    /\ aws_starter_thread = "completed" /\ pc = "exit" /\ threads = 1
    /\ wlan_pc = "set" /\ device_state = AWS_DISCONNECTED

====
